---- MODULE Spec2Model ----
(***************************************************************************)
(* Model of internal/codespaces: connectionReady and ConnectToLiveshare    *)
(* (src/internal/codespaces/codespaces.go).                                *)
(*                                                                         *)
(* ConnectToLiveshare is one function; it is cut into steps at the points  *)
(* where it blocks on a collaborator (StartCodespace, GetCodespace, the    *)
(* backoff timer, liveshare.Connect), because the caller's context can be  *)
(* cancelled and time passes while it is blocked there.                    *)
(*                                                                         *)
(* backoff.Retry, backoff.WithContext and ExponentialBackOff are the       *)
(* github.com/cenkalti/backoff/v4 library the function calls; they are     *)
(* modelled by what the library does at the call sites of lines 49-67.     *)
(* Time is counted in ticks; the library's 500ms initial interval is 10    *)
(* ticks, and the maximum interval and elapsed time are scaled down.       *)
(*                                                                         *)
(* The module also models, each as a specification of its own over its     *)
(* own variables: the RPC invoker the tests of codespaces.go exercise      *)
(* (SpecRpc), ListenTCP (SpecListen), the pr command of command/pr.go      *)
(* (SpecPr) and parseRemotes of the git package (SpecRemotes).             *)
(***************************************************************************)
EXTENDS Integers, Sequences, FiniteSets, TLC

VARIABLES
    pc,              \* position of ConnectToLiveshare
    entry,           \* the *api.Codespace given by the caller
    codespace,       \* the local variable codespace (reassigned by each fetch)
    ctx,             \* the caller's context: "active" or "canceled"
    now,             \* the clock
    startTime,       \* ExponentialBackOff.startTime
    currentInterval, \* ExponentialBackOff.currentInterval
    timer,           \* duration the retry timer was started with
    startCalls,      \* number of apiClient.StartCodespace calls
    getCalls,        \* number of apiClient.GetCodespace calls
    connectCalls,    \* number of liveshare.Connect calls
    sleeps,          \* number of backoff sleeps started
    progress,        \* calls received by the progress indicator, in order
    connectOpts,     \* liveshare.Options given to liveshare.Connect
    fetched,         \* the record returned by the latest successful GetCodespace
    startErr,        \* the error StartCodespace returned
    getErr,          \* the error GetCodespace returned
    retryErr,        \* the error backoff.Retry returned
    result,          \* what ConnectToLiveshare returned: [sess, err]
    earlierPolls,    \* what the polls before the latest one answered
    prevTimer,       \* duration of the sleep before the latest one
    timerBase,       \* currentInterval the latest sleep was drawn from
    prevBase,        \* currentInterval the sleep before it was drawn from
    wokeBy,          \* how the latest sleep ended: "timer" or "cancel"
    rpcPc,           \* position of the invoker call: "idle", "called", "returned"
    rpcMethod,       \* the invoker method called
    rpcResp,         \* the response of the remote service
    rpcRet,          \* what the invoker method returned
    rpcFull,         \* the argument full of a RebuildContainer call
    invoker,         \* the invoker: "none", "created" or "failed"
    notify,          \* the "connected" notification: "none", "fired", "received"
    notifyCalls,     \* the requests the control service received, in order
    notifyErr,       \* the error the notification ended with, logged only
    ltPc,            \* position of ListenTCP: "idle", "called", "resolved", "returned"
    ltPort,          \* the argument port of ListenTCP
    ltBusy,          \* the ports of 127.0.0.1 other listeners hold
    ltAddr,          \* the address ResolveTCPAddr gave
    ltBinds,         \* number of net.ListenTCP calls
    ltOpen,          \* the ports held by listeners this call opened
    ltRet,           \* what ListenTCP returned: [listener, port, err]
    prCmd,           \* the command run: "pr", "pr checkout" or "pr create"
    ilPc,            \* position of interactiveList
    ilPrs,           \* the local variable prs
    ilOptions,       \* the local variable prOptions
    ilAnswers,       \* the local variable answers: [Pr, Action]
    ilOpened,        \* the URLs handed to the browser launcher
    ilRet,           \* what interactiveList returned
    coPc,            \* position of checkoutPr
    coArg,           \* the argument number of checkoutPr, as a text
    coApi,           \* number of client.PullRequest calls
    coPull,          \* the pull request the API returned
    coRemotes,       \* the remotes of the local repository
    coHasFile,       \* whether refs/heads/<newBranchName> exists locally
    coGit,           \* the git commands run, in order
    coRet,           \* what checkoutPr returned
    crPc,            \* position of createPr
    crInProgress,    \* the local variable inProgress
    crRound,         \* number of createPrSurvey calls
    crSeed,          \* the defaults the latest survey round showed
    crEntered,       \* what the latest survey round returned
    crPrevEntered,   \* what the survey round before it returned
    crAnswer,        \* the latest answer to "Submit?"
    crCreates,       \* the parameters of the github.CreatePullRequest calls
    crRet,           \* how createPr ended
    grPc,            \* position of parseRemotes: "idle", "called", "returned"
    grLines,         \* the argument gitRemotes
    grRemotes        \* the RemoteSet returned

\* the state of one ConnectToLiveshare call
connectVars == <<pc, entry, codespace, ctx, now, startTime, currentInterval,
                 timer, startCalls, getCalls, connectCalls, sleeps, progress,
                 connectOpts, fetched, startErr, getErr, retryErr, result,
                 earlierPolls, prevTimer, timerBase, prevBase, wokeBy>>

\* the state of one call through the RPC invoker
rpcVars == <<rpcPc, rpcMethod, rpcResp, rpcRet, rpcFull, invoker, notify,
             notifyCalls, notifyErr>>

\* the state of one ListenTCP call
listenVars == <<ltPc, ltPort, ltBusy, ltAddr, ltBinds, ltOpen, ltRet>>

\* the state of one run of the pr command
listVars == <<ilPc, ilPrs, ilOptions, ilAnswers, ilOpened, ilRet>>
checkoutVars == <<coPc, coArg, coApi, coPull, coRemotes, coHasFile, coGit,
                  coRet>>
createVars == <<crPc, crInProgress, crRound, crSeed, crEntered, crPrevEntered,
                crAnswer, crCreates, crRet>>
prVars == <<prCmd, listVars, checkoutVars, createVars>>

\* the state of one parseRemotes call
remoteVars == <<grPc, grLines, grRemotes>>

vars == <<connectVars, rpcVars, listenVars, prVars, remoteVars>>

\* what a step of ConnectToLiveshare, of the invoker, of ListenTCP leaves alone
notConnectVars == <<rpcVars, listenVars, prVars, remoteVars>>
notRpcVars == <<connectVars, listenVars, prVars, remoteVars>>
notListenVars == <<connectVars, rpcVars, prVars, remoteVars>>
notPrVars == <<connectVars, rpcVars, listenVars, remoteVars>>
notRemoteVars == <<connectVars, rpcVars, listenVars, prVars>>

\* the record of the sleeps and polls made so far
histVars == <<earlierPolls, prevTimer, timerBase, prevBase, wokeBy>>

----------------------------------------------------------------------------
(* Bounds of the model *)

\* ExponentialBackOff.MaxInterval (10s in the code), in ticks, scaled down
MaxInterval == 12
\* ExponentialBackOff.MaxElapsedTime (5min in the code), in ticks, scaled down
MaxElapsedTime == 20
\* longest time a collaborator call takes, in ticks
MaxCallTime == 2

(* Constants of the program and of the backoff library *)

\* backoff.DefaultInitialInterval (500ms), in ticks
InitialInterval == 10
\* expBackoff.Multiplier = 1.1, as MultiplierNum / MultiplierDen
MultiplierNum == 11
MultiplierDen == 10
\* backoff.DefaultRandomizationFactor = 0.5, in percent
RandomizationPct == 50
\* backoff.Stop
Stop == -1

\* values of rand.Float64() the model draws, in percent
RandomSamples == {0, 50, 99}
\* durations of a collaborator call
CallTimes == {0, MaxCallTime}

----------------------------------------------------------------------------
(* Values *)

CodespaceStateAvailable == "Available"
CodespaceStates == {CodespaceStateAvailable, "Starting", "Shutdown"}

NoCodespace == [nil |-> TRUE]

Connection(sid, tok, ep, sas, keys) ==
    [SessionID |-> sid, SessionToken |-> tok, RelayEndpoint |-> ep,
     RelaySAS |-> sas, HostPublicKeys |-> keys]

\* every record the caller may pass in
EntryRecords ==
    { [State |-> st, Connection |-> Connection(sid, tok, ep, sas, <<"key">>)] :
        st \in CodespaceStates, sid \in {"", "sid"}, tok \in {"", "tok"},
        ep \in {"", "ep"}, sas \in {"", "sas"} }
    \cup
    { [State |-> st, Connection |-> Connection("sid", "tok", "ep", "sas", <<>>)] :
        st \in CodespaceStates }

\* the records the API answers a GetCodespace with
FetchRecords ==
    { [State |-> CodespaceStateAvailable,
       Connection |-> Connection("sid2", "tok2", "ep2", "sas2", <<"key2">>)],
      [State |-> CodespaceStateAvailable,
       Connection |-> Connection("sid3", "tok3", "ep3", "sas3", <<>>)],
      [State |-> CodespaceStateAvailable,
       Connection |-> Connection("sid4", "tok4", "ep4", "", <<"key4">>)],
      [State |-> "Starting",
       Connection |-> Connection("sid5", "tok5", "ep5", "sas5", <<"key5">>)] }

\* errors: msg is Error(), cause is the message of the error wrapped with %w
NoError == [msg |-> "", cause |-> ""]
NewError(m) == [msg |-> m, cause |-> ""]
Errorf(prefix, e) == [msg |-> prefix \o e.msg, cause |-> e.msg]

ApiError == NewError("api failure")
CtxError == NewError("context canceled")
ConnectError == NewError("connect failure")
NotReadyError == NewError("codespace not ready yet")
TimedOutError == NewError("timed out while waiting for the codespace to start")

\* errors a collaborator may return when called with context c
CallErrors(c) == {ApiError} \cup (IF c = "canceled" THEN {CtxError} ELSE {})

NoOptions == [nil |-> TRUE]
NoResult == [sess |-> "none", err |-> NoError]

----------------------------------------------------------------------------
(* connectionReady, codespaces.go:15-21 *)

connectionReadyNoSAS(c) ==
    /\ c.Connection.SessionID # ""
    /\ c.Connection.SessionToken # ""
    /\ c.Connection.RelayEndpoint # ""
    /\ c.State = CodespaceStateAvailable

connectionReady(c) ==
    /\ c.Connection.SessionID # ""
    /\ c.Connection.SessionToken # ""
    /\ c.Connection.RelayEndpoint # ""
    /\ c.Connection.RelaySAS # ""
    /\ c.State = CodespaceStateAvailable

(* the condition of line 41 *)
NeedsStartAlways(c) == TRUE

NeedsStartUnlessReady(c) == ~connectionReady(c)

NeedsStart(c) == c.State # CodespaceStateAvailable

(* the error of line 45 *)
StartFailureBare(e) == e

StartFailure(e) == Errorf("error starting codespace: ", e)

(* the permanent error of line 61 *)
FetchFailure(e) == Errorf("error getting codespace: ", e)

(* lines 60-63: what the retried operation returns after GetCodespace returned
   the error e (NoError when it returned a record) *)
OperationResultTransient(e) ==
    [permanent |-> FALSE,
     err |-> IF e # NoError THEN FetchFailure(e) ELSE NotReadyError]

OperationResult(e) ==
    IF e # NoError
    THEN [permanent |-> TRUE, err |-> FetchFailure(e)]
    ELSE [permanent |-> FALSE, err |-> NotReadyError]

\* summary of the polls before the latest one, given the summary so far and
\* the record the previous poll returned
EarlierPolls(summary, previous) ==
    IF previous = NoCodespace THEN "none"
    ELSE IF summary \in {"none", "Starting"} /\ previous.State = "Starting"
         THEN "Starting"
         ELSE "mixed"

(* liveshare.Options of lines 76-83 *)
ConnectOptionsStale(c) ==
    [SessionID |-> entry.Connection.SessionID,
     SessionToken |-> entry.Connection.SessionToken,
     RelaySAS |-> entry.Connection.RelaySAS,
     RelayEndpoint |-> entry.Connection.RelayEndpoint,
     HostPublicKeys |-> entry.Connection.HostPublicKeys]

ConnectOptions(c) ==
    [SessionID |-> c.Connection.SessionID,
     SessionToken |-> c.Connection.SessionToken,
     RelaySAS |-> c.Connection.RelaySAS,
     RelayEndpoint |-> c.Connection.RelayEndpoint,
     HostPublicKeys |-> c.Connection.HostPublicKeys]

----------------------------------------------------------------------------
(* The backoff library as configured by lines 49-53 *)

\* getRandomValueFromInterval: a value of [cur - delta, cur + delta] chosen
\* by random (in percent), truncated as time.Duration() truncates
getRandomValueFromInterval(random, cur) ==
    LET delta100 == RandomizationPct * cur
        min100   == 100 * cur - delta100
        max100   == 100 * cur + delta100
    IN  (min100 + (random * (max100 - min100 + 100)) \div 100) \div 100

\* ExponentialBackOff.incrementCurrentInterval
incrementCurrentIntervalNoCap(cur) == (cur * MultiplierNum) \div MultiplierDen

incrementCurrentInterval(cur) ==
    IF cur * MultiplierNum >= MaxInterval * MultiplierDen
    THEN MaxInterval
    ELSE (cur * MultiplierNum) \div MultiplierDen

\* ExponentialBackOff.GetElapsedTime
GetElapsedTime(t) == t - startTime

\* ExponentialBackOff.NextBackOff at time t with interval cur: the duration
\* returned and the interval left behind
ExpNextBackOff(random, t, cur) ==
    LET next == getRandomValueFromInterval(random, cur)
    IN  [next |-> IF MaxElapsedTime # 0 /\ GetElapsedTime(t) + next > MaxElapsedTime
                  THEN Stop ELSE next,
         cur  |-> incrementCurrentInterval(cur)]

\* backOffContext.NextBackOff: Stop when the context is done, else the
\* wrapped ExponentialBackOff
NextBackOff(random, c, t, cur) ==
    IF c = "canceled" THEN [next |-> Stop, cur |-> cur]
    ELSE ExpNextBackOff(random, t, cur)

(* lines 66-71: what ConnectToLiveshare returns when backoff.Retry failed *)
RetryFailureAsIs(err, next) == [sess |-> "nil", err |-> err]

RetryFailure(err, next) ==
    IF next = Stop THEN [sess |-> "nil", err |-> TimedOutError]
    ELSE [sess |-> "nil", err |-> err]

\* the deferred StopProgressIndicator calls of lines 43 and 74, run at return
DeferredStopsNone(p) == p

DeferredStops(p) ==
    LET n == Cardinality({i \in 1..Len(p) : p[i] # "Stop"})
    IN  p \o [i \in 1..n |-> "Stop"]

----------------------------------------------------------------------------
(* The RPC invoker (internal/codespaces/rpc): StartJupyterServer and
   StartSSHServer, as exercised by the tests of codespaces.go:207-435 *)

NoResponse == [nil |-> TRUE]
NoReturn == [nil |-> TRUE]

RpcIdle ==
    /\ rpcPc = "idle"
    /\ rpcMethod = "none"
    /\ rpcResp = NoResponse
    /\ rpcRet = NoReturn
    /\ rpcFull = FALSE
    /\ invoker = "none"
    /\ notify = "none"
    /\ notifyCalls = <<>>
    /\ notifyErr = NoError

\* port texts a remote service may answer with, as sequences of characters
PortTexts ==
    { <<"1", "2", "3", "4">>, <<"8", "0">>, <<"0", "2", "2">>, <<"7">>,
      <<"a", "b">>, <<"2", "x">>, <<>> }

Messages == {"", "error message", "no running server"}

\* jupyter.GetRunningServerResponse
JupyterResponses ==
    { [Result |-> ok, Message |-> m, Port |-> t, ServerUrl |-> u] :
        ok \in BOOLEAN, m \in Messages, t \in PortTexts,
        u \in {"", "http://localhost:1234?token=1234"} }

\* ssh.StartRemoteServerResponse
SSHResponses ==
    { [Result |-> ok, Message |-> m, ServerPort |-> t, User |-> u] :
        ok \in BOOLEAN, m \in Messages, t \in PortTexts,
        u \in {"", "test"} }

DigitChars == <<"0", "1", "2", "3", "4", "5", "6", "7", "8", "9">>

IsDigit(ch) == \E d \in 1..10 : DigitChars[d] = ch

DigitValue(ch) == (CHOOSE d \in 1..10 : DigitChars[d] = ch) - 1

\* strconv.Atoi on an unsigned text: the number read digit by digit, or a
\* failure when the text is empty or holds another character
RECURSIVE AtoiFrom(_, _, _)
AtoiFrom(text, i, acc) ==
    IF i > Len(text) THEN [ok |-> TRUE, value |-> acc]
    ELSE IF ~IsDigit(text[i]) THEN [ok |-> FALSE, value |-> 0]
    ELSE AtoiFrom(text, i + 1, 10 * acc + DigitValue(text[i]))

Atoi(text) ==
    IF text = <<>> THEN [ok |-> FALSE, value |-> 0] ELSE AtoiFrom(text, 1, 0)

ParseError == NewError("invalid port")

\* invoker.StartJupyterServer on the response resp
StartJupyterServerKeepsPayload(resp) ==
    LET parsed == Atoi(resp.Port)
    IN  IF ~parsed.ok
        THEN [port |-> 0, text |-> "", err |-> ParseError]
        ELSE [port |-> parsed.value, text |-> resp.ServerUrl,
              err |-> IF resp.Result THEN NoError
                      ELSE NewError("failed to start JupyterLab: "
                                        \o resp.Message)]

StartJupyterServer(resp) ==
    IF ~resp.Result
    THEN [port |-> 0, text |-> "",
          err |-> NewError("failed to start JupyterLab: " \o resp.Message)]
    ELSE LET parsed == Atoi(resp.Port)
         IN  IF ~parsed.ok
             THEN [port |-> 0, text |-> "", err |-> ParseError]
             ELSE [port |-> parsed.value, text |-> resp.ServerUrl,
                   err |-> NoError]

\* invoker.StartSSHServer on the response resp
StartSSHServerKeepsPayload(resp) ==
    LET parsed == Atoi(resp.ServerPort)
    IN  IF ~parsed.ok
        THEN [port |-> 0, text |-> "", err |-> ParseError]
        ELSE [port |-> parsed.value, text |-> resp.User,
              err |-> IF resp.Result THEN NoError
                      ELSE NewError("failed to start SSH server: "
                                        \o resp.Message)]

StartSSHServer(resp) ==
    IF ~resp.Result
    THEN [port |-> 0, text |-> "",
          err |-> NewError("failed to start SSH server: " \o resp.Message)]
    ELSE LET parsed == Atoi(resp.ServerPort)
         IN  IF ~parsed.ok
             THEN [port |-> 0, text |-> "", err |-> ParseError]
             ELSE [port |-> parsed.value, text |-> resp.User,
                   err |-> NoError]

\* codespace.RebuildContainerResponse
RebuildResponses == { [RebuildContainer |-> ok] : ok \in BOOLEAN }

\* codespace.RebuildContainerRequest for the argument full
RebuildRequest(full) == [Incremental |-> ~full]

\* invoker.RebuildContainer on the response resp to the request req
RebuildContainerIncrementalOnly(resp, req) ==
    [port |-> 0, text |-> "",
     err |-> IF resp.RebuildContainer /\ req.Incremental THEN NoError
             ELSE NewError("couldn't rebuild codespace")]

RebuildContainer(resp, req) ==
    [port |-> 0, text |-> "",
     err |-> IF resp.RebuildContainer THEN NoError
             ELSE NewError("couldn't rebuild codespace")]

\* the activity sent when the invoker is constructed
connectedEventName == "connected"

\* codespace.NotifyCodespaceOfClientActivityRequest for one event
NotifyRequest(eventName) == [ClientActivities |-> <<eventName>>]

NotifyError == NewError("notify failure")

\* what a method of the invoker returns when its own translation gave ret and
\* the notification ended with nerr: the notification's error is logged and
\* never joined into the result
InvokerReturnJoined(ret, nerr) ==
    IF nerr = NoError THEN ret
    ELSE [port |-> 0, text |-> "", err |-> nerr]

InvokerReturn(ret, nerr) == ret

----------------------------------------------------------------------------
(* ListenTCP (codespaces.go:86-99); net.ResolveTCPAddr and net.ListenTCP are
   the standard library, modelled by what they answer for a port of
   127.0.0.1.  The port numbers 0..65535 are scaled down to 0..MaxPort. *)

\* the largest port number
MaxPort == 4

Ports == 1..MaxPort

\* the ports a caller may ask for: 0, the valid ones, and one on either side
RequestedPorts == -1..(MaxPort + 1)

NoListener == [nil |-> TRUE]
NoAddr == [nil |-> TRUE]

InvalidPortError == NewError("invalid port")
BindError == NewError("bind failure")

\* net.ResolveTCPAddr("tcp", "127.0.0.1:<port>")
ResolveTCPAddr(port) ==
    IF port < 0 \/ port > MaxPort
    THEN [addr |-> NoAddr, err |-> InvalidPortError]
    ELSE [addr |-> [Port |-> port], err |-> NoError]

\* the ports net.ListenTCP can bind for addr while busy are held: the port
\* asked for when it is free, any free port when the port asked for is 0
BindablePorts(addr, busy) ==
    IF addr.Port = 0 THEN Ports \ busy ELSE {addr.Port} \ busy

\* lines 89-91
ResolveFailure(e) ==
    [listener |-> NoListener, port |-> 0,
     err |-> Errorf("failed to build tcp address: ", e)]

\* lines 93-95
ListenFailureAsBuild(e) ==
    [listener |-> NoListener, port |-> 0,
     err |-> Errorf("failed to build tcp address: ", e)]

ListenFailure(e) ==
    [listener |-> NoListener, port |-> 0,
     err |-> Errorf("failed to listen to local port over tcp: ", e)]

\* lines 96-98: the port is read back from the listener bound to bound
ListenSuccessRequestedPort(requested, bound) ==
    [listener |-> [Port |-> bound], port |-> requested, err |-> NoError]

ListenSuccess(requested, bound) ==
    [listener |-> [Port |-> bound], port |-> bound, err |-> NoError]

ListenIdle ==
    /\ ltPc = "idle"
    /\ ltPort = 0
    /\ ltBusy = {}
    /\ ltAddr = NoAddr
    /\ ltBinds = 0
    /\ ltOpen = {}
    /\ ltRet = [nil |-> TRUE]

----------------------------------------------------------------------------
(* The pr command (command/pr.go): interactiveList and checkoutPr *)

\* the numbers of the pull requests the repository has
PrNumbers == {1, 2, 12}

\* strconv.Itoa / %v and %d of a number that is not negative: its digits
RECURSIVE Itoa(_)
Itoa(n) ==
    IF n < 10 THEN <<DigitChars[n + 1]>>
    ELSE Itoa(n \div 10) \o <<DigitChars[(n % 10) + 1]>>

\* the characters of a text put together as one string
RECURSIVE Join(_)
Join(text) == IF text = <<>> THEN "" ELSE text[1] \o Join(Tail(text))

PrTitle(n) == IF n = 2 THEN "Add feature" ELSE "Fix bug"

\* the graphqlPullRequest with number n
GraphqlPullRequest(n) ==
    [Number |-> n, Title |-> PrTitle(n),
     URL |-> "https://github.com/github/gh-cli/pull/" \o Join(Itoa(n))]

NoPr == [nil |-> TRUE]

\* the lists pullRequests() may return for viewerCreated and reviewRequested
PrLists == {<<>>} \cup { <<GraphqlPullRequest(n)>> : n \in PrNumbers }

\* lines 209-214
Prs(currentPr, viewerCreated, reviewRequested) ==
    (IF currentPr # NoPr THEN <<currentPr>> ELSE <<>>)
        \o viewerCreated \o reviewRequested

\* line 226
PrOption(pr) == "[" \o Join(Itoa(pr.Number)) \o "] " \o pr.Title

\* lines 220-228: one option for each number, in the order of first occurrence
RECURSIVE PrOptionsFrom(_, _, _)
PrOptionsFrom(prs, i, seen) ==
    IF i > Len(prs) THEN <<>>
    ELSE IF prs[i].Number \in seen THEN PrOptionsFrom(prs, i + 1, seen)
    ELSE <<PrOption(prs[i])>>
            \o PrOptionsFrom(prs, i + 1, seen \cup {prs[i].Number})

PrOptions(prs) == PrOptionsFrom(prs, 1, {})

openAction == "open in browser"
checkoutAction == "checkout PR locally"
cancelAction == "cancel"

NoAnswers == [Pr |-> 0, Action |-> ""]

\* lines 270 and 274: the pull request an action works on, for the index
\* survey wrote into answers.Pr (counted from 0)
ChosenPr(prs, answers) == prs[answers.Pr + 1]

\* the arguments checkoutPr may be given on the command line
NumberArgs == { <<"1">>, <<"1", "2">>, <<"7">>, <<"x">>, <<"2", "a">>, <<>> }

NoRepo == [nil |-> TRUE]
NoRemote == [nil |-> TRUE]
NoPull == [nil |-> TRUE]

BaseRepo ==
    [Owner |-> [Login |-> "github"], Name |-> "gh-cli",
     DefaultBranch |-> "master"]

ForkRepos ==
    { [Owner |-> [Login |-> "monalisa"], Name |-> "gh-cli",
       DefaultBranch |-> d] : d \in {"master", "main"} }

HeadRefs == {"master", "feature"}

\* the pull requests client.PullRequest may return for the number n
PullRequests(n) ==
    { [Number |-> n, Base |-> [Repo |-> BaseRepo],
       Head |-> [Ref |-> ref, Repo |-> repo], MaintainerCanModify |-> mcm] :
        ref \in HeadRefs, repo \in {NoRepo, BaseRepo} \cup ForkRepos,
        mcm \in BOOLEAN }

\* the remotes a local repository may have
OriginRemote == [Name |-> "origin", Owner |-> "github", Repo |-> "gh-cli"]
ForkRemote == [Name |-> "fork", Owner |-> "monalisa", Repo |-> "gh-cli"]
RemoteSets == SUBSET {OriginRemote, ForkRemote}

\* repo.RemoteForRepo: the remote of the repository, or none
MatchingRemotes(remotes, repo) ==
    { r \in remotes : r.Owner = repo.Owner.Login /\ r.Repo = repo.Name }

RemoteForRepo(remotes, repo) ==
    IF MatchingRemotes(remotes, repo) = {} THEN NoRemote
    ELSE CHOOSE r \in MatchingRemotes(remotes, repo) : TRUE

\* pullRequest.IsSameRepo
IsSameRepo(pull) ==
    /\ pull.Head.Repo # NoRepo
    /\ pull.Head.Repo.Owner.Login = pull.Base.Repo.Owner.Login
    /\ pull.Head.Repo.Name = pull.Base.Repo.Name

\* lines 548-553
HeadRemote(pull, remotes) ==
    IF IsSameRepo(pull) THEN RemoteForRepo(remotes, pull.Base.Repo)
    ELSE IF pull.Head.Repo # NoRepo
         THEN RemoteForRepo(remotes, pull.Head.Repo)
         ELSE NoRemote

\* lines 574-579: the branch the head is fetched into when no remote has it
NewBranchNameHeadRef(pull) == pull.Head.Ref

NewBranchName(pull) ==
    IF pull.Head.Repo # NoRepo /\ pull.Head.Ref = pull.Head.Repo.DefaultBranch
    THEN pull.Head.Repo.Owner.Login \o "-" \o pull.Head.Ref
    ELSE pull.Head.Ref

\* headProject.GitURL("", "", true)
GitURL(repo) ==
    "https://github.com/" \o repo.Owner.Login \o "/" \o repo.Name \o ".git"

\* lines 556-572: the git commands when a remote has the head
GitCommandsWithRemote(pull, headRemote, hasFile) ==
    LET newBranchName == pull.Head.Ref
        remoteBranch == headRemote.Name \o "/" \o pull.Head.Ref
        refSpec == "+refs/heads/" \o pull.Head.Ref \o ":refs/remotes/"
                       \o remoteBranch
    IN  <<<<"fetch", headRemote.Name, refSpec>>>> \o
        (IF hasFile
         THEN << <<"checkout", newBranchName>>,
                 <<"merge", "--ff-only", "refs/remotes/" \o remoteBranch>> >>
         ELSE << <<"checkout", "-b", newBranchName, "--no-track", remoteBranch>>,
                 <<"config", "branch." \o newBranchName \o ".remote",
                   headRemote.Name>>,
                 <<"config", "branch." \o newBranchName \o ".merge",
                   "refs/heads/" \o pull.Head.Ref>> >>)

\* lines 573-595: the git commands when no remote has the head
GitCommandsWithoutRemote(pull, baseRemote) ==
    LET newBranchName == NewBranchName(pull)
        ref == "refs/pull/" \o Join(Itoa(pull.Number)) \o "/head"
        modify == pull.MaintainerCanModify /\ pull.Head.Repo # NoRepo
        remote == IF modify THEN GitURL(pull.Head.Repo) ELSE baseRemote.Name
        mergeRef == IF modify THEN "refs/heads/" \o pull.Head.Ref ELSE ref
    IN  << <<"fetch", baseRemote.Name, ref \o ":" \o newBranchName>>,
           <<"checkout", newBranchName>>,
           <<"config", "branch." \o newBranchName \o ".remote", remote>>,
           <<"config", "branch." \o newBranchName \o ".merge", mergeRef>> >>

\* lines 555-595
GitCommands(pull, remotes, hasFile) ==
    IF HeadRemote(pull, remotes) # NoRemote
    THEN GitCommandsWithRemote(pull, HeadRemote(pull, remotes), hasFile)
    ELSE GitCommandsWithoutRemote(pull, RemoteForRepo(remotes, pull.Base.Repo))

(* createPrSurvey and createPr *)

\* the largest number of survey rounds of one run
MaxRounds == 3

\* prCreateInput{}
NoInput == [Title |-> "", Body |-> ""]

\* what the user may do at the title and at the body prompt: keep the
\* default shown, or enter a text
TitleInputs == {"keep", "Fix bug", "Add feature"}
BodyInputs == {"keep", "first draft", "second draft"}

\* lines 112 and 120: the defaults of the two prompts
SurveyDefaultsEmpty(inProgress) == NoInput

SurveyDefaults(inProgress) == inProgress

\* lines 105-134: survey.Ask writes each answer as it is given; outcome says
\* whether both prompts were answered or which one failed
CreatePrSurvey(inProgress, title, body, outcome) ==
    LET defaults == SurveyDefaults(inProgress)
        t == IF title = "keep" THEN defaults.Title ELSE title
        b == IF body = "keep" THEN defaults.Body ELSE body
    IN  IF outcome = "title failed" THEN inProgress
        ELSE IF outcome = "body failed"
             THEN [Title |-> t, Body |-> inProgress.Body]
             ELSE [Title |-> t, Body |-> b]

\* lines 191-194
PullRequestParams(inProgress) ==
    [Title |-> inProgress.Title, Body |-> inProgress.Body]

CreateIdle ==
    /\ crPc = "idle"
    /\ crInProgress = NoInput
    /\ crRound = 0
    /\ crSeed = NoInput
    /\ crEntered = NoInput
    /\ crPrevEntered = NoInput
    /\ crAnswer = "none"
    /\ crCreates = <<>>
    /\ crRet = "none"

ListIdle ==
    /\ ilPc = "idle"
    /\ ilPrs = <<>>
    /\ ilOptions = <<>>
    /\ ilAnswers = NoAnswers
    /\ ilOpened = <<>>
    /\ ilRet = NoReturn

CheckoutIdle ==
    /\ coPc = "idle"
    /\ coArg = <<>>
    /\ coApi = 0
    /\ coPull = NoPull
    /\ coRemotes = {}
    /\ coHasFile = FALSE
    /\ coGit = <<>>
    /\ coRet = NoReturn

PrIdle ==
    /\ prCmd = "none"
    /\ ListIdle
    /\ CheckoutIdle
    /\ CreateIdle

----------------------------------------------------------------------------
(* parseRemotes (git package, unnamed/part_000:68-103).  A line of
   "git remote -v" is a sequence of fields, the texts between its runs of
   white space. *)

\* the largest number of lines given to parseRemotes
MaxLines == 3

RemoteNames == {"origin", "upstream"}

\* URL texts: an https URL, an scp-like address, and a text that is no URL
UrlTexts == {"https://github.com/o/r.git", "git@github.com:o/r.git", "%zz"}

TypeFields == {"(fetch)", "(push)"}

\* the lines "git remote -v" may print, and lines that are none of its
RemoteLines ==
    { <<n, u, t>> : n \in RemoteNames, u \in UrlTexts \ {"git@github.com:o/r.git"},
                    t \in TypeFields }
        \cup { <<"origin", "git@github.com:o/r.git", "(fetch)">>,
                <<>>,
                <<"origin", "https://github.com/o/r.git", "(pull)">>,
                <<"my", "origin", "https://github.com/o/r.git", "(fetch)">> }

RECURSIVE LineLists(_)
LineLists(n) ==
    IF n = 0 THEN {<<>>}
    ELSE LineLists(n - 1)
            \cup { Append(l, r) : l \in { x \in LineLists(n - 1) : Len(x) = n - 1 },
                                  r \in RemoteLines }

\* the fields of a text joined by single spaces
RECURSIVE JoinFields(_)
JoinFields(fields) ==
    IF fields = <<>> THEN ""
    ELSE IF Len(fields) = 1 THEN fields[1]
    ELSE fields[1] \o " " \o JoinFields(Tail(fields))

NoMatch == [nil |-> TRUE]

\* remoteRE.FindStringSubmatch (lines 13 and 70) with the three groups
\* trimmed (lines 74-76): the last field is "(push)" or "(fetch)", the field
\* before it is the URL, and all that comes before is the name
FindStringSubmatch(line) ==
    IF Len(line) >= 3 /\ line[Len(line)] \in TypeFields
    THEN [name |-> JoinFields(SubSeq(line, 1, Len(line) - 2)),
          urlStr |-> line[Len(line) - 1],
          urlType |-> IF line[Len(line)] = "(fetch)" THEN "fetch" ELSE "push"]
    ELSE NoMatch

NoURL == [nil |-> TRUE]

\* ParseURL (line 90): an scp-like address becomes an ssh URL, a text that is
\* no URL is an error
ParseURL(urlStr) ==
    IF urlStr = "%zz" THEN [u |-> NoURL, err |-> NewError("invalid URL escape")]
    ELSE IF urlStr = "git@github.com:o/r.git"
         THEN [u |-> [url |-> "ssh://git@github.com/o/r.git"], err |-> NoError]
         ELSE [u |-> [url |-> urlStr], err |-> NoError]

\* line 86
NewRemoteEntry(name) == [Name |-> name, FetchURL |-> NoURL, PushURL |-> NoURL]

\* lines 95-100
SetURLBoth(rem, urlType, u) == [rem EXCEPT !.FetchURL = u, !.PushURL = u]

SetURL(rem, urlType, u) ==
    IF urlType = "fetch" THEN [rem EXCEPT !.FetchURL = u]
    ELSE IF urlType = "push" THEN [rem EXCEPT !.PushURL = u]
    ELSE rem

\* lines 70-100: one turn of the loop, for the line r
ParseRemoteLine(remotes, r) ==
    LET match == FindStringSubmatch(r)
    IN  IF match = NoMatch THEN remotes
        ELSE LET kept == remotes # <<>>
                            /\ remotes[Len(remotes)].Name = match.name
                 entries == IF kept THEN remotes
                            ELSE Append(remotes, NewRemoteEntry(match.name))
                 parsed == ParseURL(match.urlStr)
             IN  IF parsed.err # NoError THEN entries
                 ELSE [entries EXCEPT ![Len(entries)] =
                          SetURL(entries[Len(entries)], match.urlType, parsed.u)]

\* lines 68-103
RECURSIVE ParseRemotesFrom(_, _, _)
ParseRemotesFrom(gitRemotes, i, remotes) ==
    IF i > Len(gitRemotes) THEN remotes
    ELSE ParseRemotesFrom(gitRemotes, i + 1,
                          ParseRemoteLine(remotes, gitRemotes[i]))

parseRemotes(gitRemotes) == ParseRemotesFrom(gitRemotes, 1, <<>>)

RemotesIdle ==
    /\ grPc = "idle"
    /\ grLines = <<>>
    /\ grRemotes = <<>>

----------------------------------------------------------------------------
(* The parts of the program that are not running *)

\* no ConnectToLiveshare call is running
ConnectIdle ==
    /\ pc = "idle"
    /\ entry = NoCodespace
    /\ codespace = NoCodespace
    /\ ctx = "active"
    /\ now = 0
    /\ startTime = 0
    /\ currentInterval = InitialInterval
    /\ timer = 0
    /\ startCalls = 0
    /\ getCalls = 0
    /\ connectCalls = 0
    /\ sleeps = 0
    /\ progress = <<>>
    /\ connectOpts = NoOptions
    /\ fetched = NoCodespace
    /\ startErr = NoError
    /\ getErr = NoError
    /\ retryErr = NoError
    /\ result = NoResult
    /\ earlierPolls = "none"
    /\ prevTimer = 0
    /\ timerBase = 0
    /\ prevBase = 0
    /\ wokeBy = "none"

NotConnectIdle == RpcIdle /\ ListenIdle /\ PrIdle /\ RemotesIdle
NotRpcIdle == ConnectIdle /\ ListenIdle /\ PrIdle /\ RemotesIdle
NotListenIdle == ConnectIdle /\ RpcIdle /\ PrIdle /\ RemotesIdle
NotPrIdle == ConnectIdle /\ RpcIdle /\ ListenIdle /\ RemotesIdle
NotRemotesIdle == ConnectIdle /\ RpcIdle /\ ListenIdle /\ PrIdle

----------------------------------------------------------------------------
Init ==
    /\ pc = "entry"
    /\ entry \in EntryRecords
    /\ codespace = entry
    /\ ctx = "active"
    /\ now = 0
    /\ startTime = 0
    /\ currentInterval = InitialInterval
    /\ timer = 0
    /\ startCalls = 0
    /\ getCalls = 0
    /\ connectCalls = 0
    /\ sleeps = 0
    /\ progress = <<>>
    /\ connectOpts = NoOptions
    /\ fetched = NoCodespace
    /\ startErr = NoError
    /\ getErr = NoError
    /\ retryErr = NoError
    /\ result = NoResult
    /\ earlierPolls = "none"
    /\ prevTimer = 0
    /\ timerBase = 0
    /\ prevBase = 0
    /\ wokeBy = "none"
    /\ NotConnectIdle

\* the caller cancels ctx while ConnectToLiveshare runs
Cancel ==
    /\ pc # "done"
    /\ UNCHANGED notConnectVars
    /\ ctx = "active"
    /\ ctx' = "canceled"
    /\ UNCHANGED <<pc, entry, codespace, now, startTime, currentInterval,
                   timer, startCalls, getCalls, connectCalls, sleeps, progress,
                   connectOpts, fetched, startErr, getErr, retryErr, result>>
    /\ UNCHANGED histVars

\* lines 49-53 and the b.Reset() of backoff.Retry: the retry loop begins
BeginRetry ==
    /\ currentInterval' = InitialInterval
    /\ startTime' = now'
    /\ pc' = "attempt"

\* lines 41-44: the state check, the indicator and the StartCodespace call
Enter ==
    /\ pc = "entry"
    /\ UNCHANGED notConnectVars
    /\ now' = now
    /\ IF NeedsStart(codespace)
       THEN /\ progress' = Append(progress, "Starting codespace")
            /\ startCalls' = startCalls + 1
            /\ pc' = "starting"
            /\ UNCHANGED <<startTime, currentInterval>>
       ELSE /\ BeginRetry
            /\ UNCHANGED <<progress, startCalls>>
    /\ UNCHANGED <<entry, codespace, ctx, timer, getCalls, connectCalls,
                   sleeps, connectOpts, fetched, startErr, getErr, retryErr,
                   result>>
    /\ UNCHANGED histVars

\* lines 44-47: StartCodespace returns
StartReturns ==
    /\ pc = "starting"
    /\ UNCHANGED notConnectVars
    /\ now' = now
    /\ \/ /\ \E e \in CallErrors(ctx) :
                /\ startErr' = e
                /\ result' = [sess |-> "nil", err |-> StartFailure(e)]
          /\ progress' = DeferredStops(progress)
          /\ pc' = "done"
          /\ UNCHANGED <<startTime, currentInterval>>
       \/ /\ BeginRetry
          /\ UNCHANGED <<startErr, result, progress>>
    /\ UNCHANGED <<entry, codespace, ctx, timer, startCalls, getCalls,
                   connectCalls, sleeps, connectOpts, fetched, getErr,
                   retryErr>>
    /\ UNCHANGED histVars

\* lines 66-71 after backoff.Retry returned err at time t, with the interval
\* cur left in the ExponentialBackOff
AfterRetryErrorFallsThrough(err, t, cur) ==
    /\ retryErr' = err
    /\ result' = result
    /\ currentInterval' = cur
    /\ progress' = Append(progress, "Connecting to codespace")
    /\ pc' = "connecting"

AfterRetryError(err, t, cur) ==
    /\ retryErr' = err
    /\ \E random \in RandomSamples :
          LET nb == NextBackOff(random, ctx, t, cur)
          IN  /\ result' = RetryFailure(err, nb.next)
              /\ currentInterval' = nb.cur
    /\ progress' = DeferredStops(progress)
    /\ pc' = "done"

\* lines 56-59 inside one iteration of backoff.Retry: the ready check, then
\* either success (lines 73-76: indicator and liveshare.Connect call) or the
\* GetCodespace call
Attempt ==
    /\ pc = "attempt"
    /\ UNCHANGED notConnectVars
    /\ IF connectionReady(codespace)
       THEN /\ progress' = Append(progress, "Connecting to codespace")
            /\ connectOpts' = ConnectOptions(codespace)
            /\ connectCalls' = connectCalls + 1
            /\ pc' = "connecting"
            /\ UNCHANGED getCalls
       ELSE /\ getCalls' = getCalls + 1
            /\ pc' = "fetching"
            /\ UNCHANGED <<progress, connectOpts, connectCalls>>
    /\ UNCHANGED <<entry, codespace, ctx, now, startTime, currentInterval,
                   timer, startCalls, sleeps, fetched, startErr, getErr,
                   retryErr, result>>
    /\ UNCHANGED histVars

\* the rest of one iteration of backoff.Retry after the operation returned
\* op at time t: a permanent error ends the loop; otherwise NextBackOff is
\* asked, and either the loop ends (Stop) or the timer is started
RetryIteration(op, t) ==
    IF op.permanent
    THEN /\ AfterRetryError(op.err, t, currentInterval)
         /\ UNCHANGED <<timer, sleeps, prevTimer, timerBase, prevBase>>
    ELSE \E random \in RandomSamples :
            LET nb == NextBackOff(random, ctx, t, currentInterval)
            IN  IF nb.next = Stop
                THEN /\ AfterRetryError(
                          IF ctx = "canceled" THEN CtxError ELSE op.err,
                          t, nb.cur)
                     /\ UNCHANGED <<timer, sleeps, prevTimer, timerBase,
                                    prevBase>>
                ELSE /\ timer' = nb.next
                     /\ prevTimer' = timer
                     /\ timerBase' = currentInterval
                     /\ prevBase' = timerBase
                     /\ sleeps' = sleeps + 1
                     /\ currentInterval' = nb.cur
                     /\ pc' = "sleeping"
                     /\ UNCHANGED <<retryErr, result, progress>>

\* lines 59-63 and the rest of the iteration of backoff.Retry: GetCodespace
\* returns an error or a record, and the operation returns
GetReturns ==
    /\ pc = "fetching"
    /\ UNCHANGED notConnectVars
    /\ \E d \in CallTimes :
        /\ now' = now + d
        /\ \/ \E e \in CallErrors(ctx) :
                /\ getErr' = e
                /\ codespace' = NoCodespace
                /\ RetryIteration(OperationResult(e), now')
                /\ UNCHANGED <<fetched, earlierPolls>>
           \/ \E r \in FetchRecords :
                /\ codespace' = r
                /\ fetched' = r
                /\ earlierPolls' = EarlierPolls(earlierPolls, fetched)
                /\ RetryIteration(OperationResult(NoError), now')
                /\ UNCHANGED getErr
    /\ UNCHANGED <<entry, ctx, startTime, startCalls, getCalls, connectCalls,
                   connectOpts, startErr, wokeBy>>

\* the select of backoff.Retry: the timer fires and the next iteration begins
TimerFires ==
    /\ pc = "sleeping"
    /\ UNCHANGED notConnectVars
    /\ ctx = "active"
    /\ now' = now + timer
    /\ pc' = "attempt"
    /\ wokeBy' = "timer"
    /\ UNCHANGED <<entry, codespace, ctx, startTime, currentInterval, timer,
                   startCalls, getCalls, connectCalls, sleeps, progress,
                   connectOpts, fetched, startErr, getErr, retryErr, result,
                   earlierPolls, prevTimer, timerBase, prevBase>>

\* the select of backoff.Retry: ctx.Done() wins, some time into the sleep and
\* before the timer fires, and Retry returns ctx.Err()
SleepCancelledIgnored ==
    /\ pc = "sleeping"
    /\ UNCHANGED notConnectVars
    /\ ctx = "canceled"
    /\ now' = now + timer
    /\ pc' = "attempt"
    /\ wokeBy' = "timer"
    /\ UNCHANGED <<entry, codespace, ctx, startTime, currentInterval, timer,
                   startCalls, getCalls, connectCalls, sleeps, progress,
                   connectOpts, fetched, startErr, getErr, retryErr, result,
                   earlierPolls, prevTimer, timerBase, prevBase>>

SleepCancelled ==
    /\ pc = "sleeping"
    /\ UNCHANGED notConnectVars
    /\ ctx = "canceled"
    /\ \E d \in {0, timer - 1} : now' = now + d
    /\ wokeBy' = "cancel"
    /\ AfterRetryError(CtxError, now', currentInterval)
    /\ UNCHANGED <<entry, codespace, ctx, startTime, timer, startCalls,
                   getCalls, connectCalls, sleeps, connectOpts, fetched,
                   startErr, getErr, earlierPolls, prevTimer, timerBase,
                   prevBase>>

\* lines 76-84: liveshare.Connect returns and so does ConnectToLiveshare
ConnectReturns ==
    /\ pc = "connecting"
    /\ UNCHANGED notConnectVars
    /\ now' = now
    /\ \/ result' = [sess |-> "session", err |-> NoError]
       \/ \E e \in {ConnectError} \cup CallErrors(ctx) :
             result' = [sess |-> "nil", err |-> e]
    /\ progress' = DeferredStops(progress)
    /\ pc' = "done"
    /\ UNCHANGED <<entry, codespace, ctx, startTime, currentInterval, timer,
                   startCalls, getCalls, connectCalls, sleeps, connectOpts,
                   fetched, startErr, getErr, retryErr>>
    /\ UNCHANGED histVars

Next ==
    \/ Cancel
    \/ Enter
    \/ StartReturns
    \/ Attempt
    \/ GetReturns
    \/ TimerFires
    \/ SleepCancelled
    \/ ConnectReturns

Spec == Init /\ [][Next]_vars

TypeOK ==
    /\ pc \in {"entry", "starting", "attempt", "fetching", "sleeping",
               "connecting", "done"}
    /\ entry \in EntryRecords
    /\ ctx \in {"active", "canceled"}
    /\ now \in Nat
    /\ currentInterval \in InitialInterval..MaxInterval
    /\ startCalls \in Nat /\ getCalls \in Nat /\ connectCalls \in Nat

----------------------------------------------------------------------------
(* One call through the RPC invoker *)

InitRpc ==
    /\ RpcIdle
    /\ NotRpcIdle

\* CreateInvoker: the channel to the remote services is opened; when that
\* succeeds the "connected" notification is fired as a detached operation and
\* the invoker is returned without waiting for it
CreateInvoker ==
    /\ invoker = "none"
    /\ \E opened \in BOOLEAN :
          IF opened
          THEN invoker' = "created" /\ notify' = "fired"
          ELSE invoker' = "failed" /\ notify' = notify
    /\ UNCHANGED <<rpcPc, rpcMethod, rpcResp, rpcRet, rpcFull, notifyCalls,
                   notifyErr>>
    /\ UNCHANGED notRpcVars

\* the control service receives the notification and answers it, with
\* success or with a failure; the invoker only logs the failure
NotifyReceived ==
    /\ notify = "fired"
    /\ notify' = "received"
    /\ notifyCalls' = Append(notifyCalls, NotifyRequest(connectedEventName))
    /\ \E fails \in BOOLEAN :
          notifyErr' = IF fails THEN NotifyError ELSE NoError
    /\ UNCHANGED <<rpcPc, rpcMethod, rpcResp, rpcRet, rpcFull, invoker>>
    /\ UNCHANGED notRpcVars

\* the caller invokes StartJupyterServer, StartSSHServer or RebuildContainer,
\* and the request goes to the remote service
RpcCall ==
    /\ invoker = "created"
    /\ rpcPc = "idle"
    /\ \E m \in {"StartJupyterServer", "StartSSHServer", "RebuildContainer"} :
          /\ rpcMethod' = m
          /\ \E full \in BOOLEAN :
                rpcFull' = IF m = "RebuildContainer" THEN full ELSE FALSE
    /\ rpcPc' = "called"
    /\ UNCHANGED <<rpcResp, rpcRet, invoker, notify, notifyCalls, notifyErr>>
    /\ UNCHANGED notRpcVars

\* the remote service answers and the invoker method translates the answer
RpcReturns ==
    /\ rpcPc = "called"
    /\ \/ /\ rpcMethod = "StartJupyterServer"
          /\ \E resp \in JupyterResponses :
                /\ rpcResp' = resp
                /\ rpcRet' = InvokerReturn(StartJupyterServer(resp), notifyErr)
       \/ /\ rpcMethod = "StartSSHServer"
          /\ \E resp \in SSHResponses :
                /\ rpcResp' = resp
                /\ rpcRet' = InvokerReturn(StartSSHServer(resp), notifyErr)
       \/ /\ rpcMethod = "RebuildContainer"
          /\ \E resp \in RebuildResponses :
                /\ rpcResp' = resp
                /\ rpcRet' = InvokerReturn(
                      RebuildContainer(resp, RebuildRequest(rpcFull)),
                      notifyErr)
    /\ rpcPc' = "returned"
    /\ UNCHANGED <<rpcMethod, rpcFull, invoker, notify, notifyCalls, notifyErr>>
    /\ UNCHANGED notRpcVars

NextRpc ==
    \/ CreateInvoker
    \/ NotifyReceived
    \/ RpcCall
    \/ RpcReturns

SpecRpc == InitRpc /\ [][NextRpc]_vars

----------------------------------------------------------------------------
(* One call of ListenTCP *)

InitListen ==
    /\ ltPc = "called"
    /\ ltPort \in RequestedPorts
    /\ ltBusy \in SUBSET Ports
    /\ ltAddr = NoAddr
    /\ ltBinds = 0
    /\ ltOpen = {}
    /\ ltRet = [nil |-> TRUE]
    /\ NotListenIdle

\* lines 88-91: the address is built; a failure returns
Resolve ==
    /\ ltPc = "called"
    /\ LET r == ResolveTCPAddr(ltPort)
       IN  IF r.err # NoError
           THEN /\ ltRet' = ResolveFailure(r.err)
                /\ ltPc' = "returned"
                /\ ltAddr' = ltAddr
           ELSE /\ ltAddr' = r.addr
                /\ ltPc' = "resolved"
                /\ ltRet' = ltRet
    /\ UNCHANGED <<ltPort, ltBusy, ltBinds, ltOpen>>
    /\ UNCHANGED notListenVars

\* lines 92-98: net.ListenTCP binds a port or fails (the port is held, no
\* port is free, or the system refuses); the port is read from the listener
Listen ==
    /\ ltPc = "resolved"
    /\ ltBinds' = ltBinds + 1
    /\ \/ \E bound \in BindablePorts(ltAddr, ltBusy) :
             /\ ltOpen' = ltOpen \cup {bound}
             /\ ltRet' = ListenSuccess(ltPort, bound)
       \/ /\ ltOpen' = ltOpen
          /\ ltRet' = ListenFailure(BindError)
    /\ ltPc' = "returned"
    /\ UNCHANGED <<ltPort, ltBusy, ltAddr>>
    /\ UNCHANGED notListenVars

NextListen ==
    \/ Resolve
    \/ Listen

SpecListen == InitListen /\ [][NextListen]_vars

----------------------------------------------------------------------------
(* One run of the pr command: the interactive list, or checkout <number> *)

SurveyError == NewError("interrupt")
LauncherError == NewError("no browser launcher")
NumberError == NewError("invalid syntax")
NotFoundError == NewError("pull request not found")
LocalRepoError == NewError("not a git repository")
NoRemoteError == NewError("could not find git remote")

InitPr ==
    /\ prCmd \in {"pr", "pr checkout", "pr create"}
    /\ ilPc = IF prCmd = "pr" THEN "called" ELSE "idle"
    /\ coPc = IF prCmd = "pr checkout" THEN "called" ELSE "idle"
    /\ crPc = IF prCmd = "pr create" THEN "survey" ELSE "idle"
    /\ IF prCmd = "pr checkout" THEN coArg \in NumberArgs ELSE coArg = <<>>
    /\ crInProgress = NoInput
    /\ crRound = 0
    /\ crSeed = NoInput
    /\ crEntered = NoInput
    /\ crPrevEntered = NoInput
    /\ crAnswer = "none"
    /\ crCreates = <<>>
    /\ crRet = "none"
    /\ ilPrs = <<>>
    /\ ilOptions = <<>>
    /\ ilAnswers = NoAnswers
    /\ ilOpened = <<>>
    /\ ilRet = NoReturn
    /\ coApi = 0
    /\ coPull = NoPull
    /\ coRemotes = {}
    /\ coHasFile = FALSE
    /\ coGit = <<>>
    /\ coRet = NoReturn
    /\ NotPrIdle

\* lines 204-228: pullRequests() answers; prs and prOptions are built
ListFetch ==
    /\ ilPc = "called"
    /\ \/ /\ ilRet' = [err |-> ApiError]
          /\ ilPc' = "done"
          /\ UNCHANGED <<ilPrs, ilOptions>>
       \/ \E n \in {0} \cup PrNumbers, viewerCreated \in PrLists,
             reviewRequested \in PrLists :
             LET currentPr == IF n = 0 THEN NoPr ELSE GraphqlPullRequest(n)
                 prs == Prs(currentPr, viewerCreated, reviewRequested)
             IN  /\ ilPrs' = prs
                 /\ ilOptions' = PrOptions(prs)
                 /\ ilPc' = "asking"
                 /\ ilRet' = ilRet
    /\ UNCHANGED <<prCmd, ilAnswers, ilOpened, checkoutVars, createVars>>
    /\ UNCHANGED notPrVars

\* lines 257-278: the user picks an option and an action, and the action
\* runs; the checkout action calls checkoutPr
ListAnswer ==
    /\ ilPc = "asking"
    /\ \/ /\ ilRet' = [err |-> SurveyError]
          /\ UNCHANGED <<ilAnswers, ilOpened, checkoutVars>>
       \/ \E index \in 0..(Len(ilOptions) - 1),
             action \in {openAction, checkoutAction, cancelAction} :
             LET answers == [Pr |-> index, Action |-> action]
             IN  /\ ilAnswers' = answers
                 /\ \/ /\ action = cancelAction
                       /\ ilRet' = [err |-> NoError]
                       /\ UNCHANGED <<ilOpened, checkoutVars>>
                    \/ /\ action = openAction
                       /\ \/ /\ ilRet' = [err |-> LauncherError]
                             /\ ilOpened' = ilOpened
                          \/ /\ ilOpened' =
                                  Append(ilOpened, ChosenPr(ilPrs, answers).URL)
                             /\ ilRet' = [err |-> NoError]
                       /\ UNCHANGED checkoutVars
                    \/ /\ action = checkoutAction
                       /\ coArg' = Itoa(ChosenPr(ilPrs, answers).Number)
                       /\ coPc' = "called"
                       /\ ilRet' = [checkoutPr |-> TRUE]
                       /\ UNCHANGED <<ilOpened, coApi, coPull, coRemotes,
                                      coHasFile, coGit, coRet>>
    /\ ilPc' = "done"
    /\ UNCHANGED <<prCmd, ilPrs, ilOptions, createVars>>
    /\ UNCHANGED notPrVars

\* lines 526-533: the argument is parsed; when it is a number the pull
\* request is asked for
CheckoutStart ==
    /\ coPc = "called"
    /\ IF ~Atoi(coArg).ok
       THEN /\ coRet' = [err |-> NumberError]
            /\ coPc' = "done"
            /\ coApi' = coApi
       ELSE /\ coApi' = coApi + 1
            /\ coPc' = "api"
            /\ coRet' = coRet
    /\ UNCHANGED <<prCmd, listVars, createVars, coArg, coPull, coRemotes,
                   coHasFile, coGit>>
    /\ UNCHANGED notPrVars

\* lines 533-597: the API answers; the local repository and its remotes are
\* read, and the git commands run until one fails (utils.Check exits)
CheckoutProceeds ==
    /\ coPc = "api"
    /\ \/ /\ coRet' = [err |-> NotFoundError]
          /\ UNCHANGED <<coPull, coRemotes, coHasFile, coGit>>
       \/ \E pull \in PullRequests(Atoi(coArg).value) :
             /\ pull.Number \in PrNumbers
             /\ coPull' = pull
             /\ \/ /\ coRet' = [err |-> LocalRepoError]
                   /\ UNCHANGED <<coRemotes, coHasFile, coGit>>
                \/ \E remotes \in RemoteSets, hasFile \in BOOLEAN :
                      /\ hasFile => HeadRemote(pull, remotes) # NoRemote
                      /\ coRemotes' = remotes
                      /\ coHasFile' = hasFile
                      /\ IF RemoteForRepo(remotes, pull.Base.Repo) = NoRemote
                         THEN /\ coRet' = [err |-> NoRemoteError]
                              /\ coGit' = coGit
                         ELSE LET cmds == GitCommands(pull, remotes, hasFile)
                              IN  \/ /\ coGit' = cmds
                                     /\ coRet' = [err |-> NoError]
                                  \/ \E failed \in 1..Len(cmds) :
                                        /\ coGit' = SubSeq(cmds, 1, failed)
                                        /\ coRet' = [exit |-> 1]
    /\ coPc' = "done"
    /\ UNCHANGED <<prCmd, listVars, createVars, coArg, coApi>>
    /\ UNCHANGED notPrVars

\* lines 150-152: one survey round, seeded with inProgress; its error is
\* dropped
CreateSurvey ==
    /\ crPc = "survey"
    /\ crRound < MaxRounds
    /\ crRound' = crRound + 1
    /\ crSeed' = SurveyDefaults(crInProgress)
    /\ \E title \in TitleInputs, body \in BodyInputs,
          outcome \in {"answered", "title failed", "body failed"} :
          crInProgress' = CreatePrSurvey(crInProgress, title, body, outcome)
    /\ crPrevEntered' = crEntered
    /\ crEntered' = crInProgress'
    /\ crPc' = "confirm"
    /\ UNCHANGED <<prCmd, listVars, checkoutVars, crAnswer, crCreates, crRet>>
    /\ UNCHANGED notPrVars

\* lines 154-196: the confirmation prompt; "Yes" leaves the loop and calls
\* github.CreatePullRequest
CreateConfirm ==
    /\ crPc = "confirm"
    /\ \/ /\ crAnswer' = "error"
          /\ crPc' = "done"
          /\ crRet' = "returned"
          /\ crCreates' = crCreates
       \/ /\ crAnswer' = "Yes"
          /\ crCreates' = Append(crCreates, PullRequestParams(crInProgress))
          /\ crPc' = "creating"
          /\ crRet' = crRet
       \/ /\ crRound < MaxRounds
          /\ crAnswer' = "Edit"
          /\ crPc' = "survey"
          /\ UNCHANGED <<crCreates, crRet>>
       \/ /\ crAnswer' = "Cancel and discard"
          /\ crPc' = "done"
          /\ crRet' = "discarded"
          /\ crCreates' = crCreates
    /\ UNCHANGED <<prCmd, listVars, checkoutVars, crInProgress, crRound, crSeed,
                   crEntered, crPrevEntered>>
    /\ UNCHANGED notPrVars

\* lines 196-201: github.CreatePullRequest answers; utils.Check exits on an
\* error
CreateReturns ==
    /\ crPc = "creating"
    /\ crRet' \in {"returned", "exit"}
    /\ crPc' = "done"
    /\ UNCHANGED <<prCmd, listVars, checkoutVars, crInProgress, crRound, crSeed,
                   crEntered, crPrevEntered, crAnswer, crCreates>>
    /\ UNCHANGED notPrVars

NextPr ==
    \/ ListFetch
    \/ ListAnswer
    \/ CheckoutStart
    \/ CheckoutProceeds
    \/ CreateSurvey
    \/ CreateConfirm
    \/ CreateReturns

SpecPr == InitPr /\ [][NextPr]_vars

----------------------------------------------------------------------------
(* One call of parseRemotes *)

InitRemotes ==
    /\ grPc = "called"
    /\ grLines \in LineLists(MaxLines)
    /\ grRemotes = <<>>
    /\ NotRemotesIdle

\* lines 68-103
ParseRemotes ==
    /\ grPc = "called"
    /\ grRemotes' = parseRemotes(grLines)
    /\ grPc' = "returned"
    /\ UNCHANGED grLines
    /\ UNCHANGED notRemoteVars

NextRemotes == ParseRemotes

SpecRemotes == InitRemotes /\ [][NextRemotes]_vars

----------------------------------------------------------------------------
(* Properties of connectionReady and ConnectToLiveshare *)

CredentialFields == {"SessionID", "SessionToken", "RelayEndpoint", "RelaySAS"}

MissingFields(c) == {f \in CredentialFields : c.Connection[f] = ""}

Returned == pc = "done"

\* the record liveshare.Connect must be given: the latest one fetched, or the
\* one given at entry when nothing was fetched
LatestRecord == IF fetched = NoCodespace THEN entry ELSE fetched

\* C1: the ready check of an attempt succeeds (the function goes on to
\* connect) exactly when no credential field of the record is empty and its
\* state is Available; with any field empty or another state it fails (the
\* function goes on to fetch).
C1_ReadyIffAllFieldsAndAvailable ==
    /\ pc = "connecting" =>
          /\ MissingFields(codespace) = {}
          /\ codespace.State = CodespaceStateAvailable
    /\ pc = "fetching" =>
          \/ MissingFields(codespace) # {}
          \/ codespace.State # CodespaceStateAvailable

C1_Witness ==
    /\ pc = "fetching"
    /\ codespace.State = CodespaceStateAvailable
    /\ MissingFields(codespace) = {"RelaySAS"}

\* C2: when the record given at entry is ready, StartCodespace and
\* GetCodespace are never called and no backoff sleep is started.
C2_ReadyAtEntryNoStartNoFetchNoSleep ==
    (MissingFields(entry) = {} /\ entry.State = CodespaceStateAvailable) =>
        /\ startCalls = 0
        /\ getCalls = 0
        /\ sleeps = 0
        /\ pc \in {"entry", "attempt", "connecting", "done"}

C2_Witness ==
    /\ MissingFields(entry) = {}
    /\ entry.State = CodespaceStateAvailable
    /\ Returned
    /\ connectCalls = 1
    /\ result.sess = "session"

\* C3: StartCodespace is called once when the entry state is not Available
\* and never when it is Available (polling still happens when the fields are
\* empty); the start call comes before every GetCodespace call.
C3_StartExactlyOnceIffNotAvailable ==
    /\ pc # "entry" =>
          startCalls = (IF entry.State # CodespaceStateAvailable THEN 1 ELSE 0)
    /\ pc = "entry" => startCalls = 0
    /\ pc = "starting" => getCalls = 0
    /\ (Returned /\ entry.State = CodespaceStateAvailable
            /\ MissingFields(entry) # {}) => getCalls >= 1

C3_Witness ==
    /\ Returned
    /\ entry.State = CodespaceStateAvailable
    /\ MissingFields(entry) # {}
    /\ startCalls = 0
    /\ getCalls >= 2

\* C4: when StartCodespace fails, ConnectToLiveshare returns a nil session and
\* the start error wrapped with "error starting codespace: ", and neither
\* fetches, nor sleeps, nor connects.
C4_StartErrorIsWrappedAndFinal ==
    startErr # NoError =>
        /\ Returned
        /\ result.sess = "nil"
        /\ result.err.msg = "error starting codespace: " \o startErr.msg
        /\ result.err.cause = startErr.msg
        /\ getCalls = 0
        /\ sleeps = 0
        /\ connectCalls = 0

C4_Witness ==
    /\ Returned
    /\ startErr = ApiError
    /\ startCalls = 1

\* C5: when GetCodespace fails, no further fetch and no connect happen and
\* ConnectToLiveshare returns "error getting codespace: <cause>", whatever the
\* context and the elapsed time.
C5_FetchErrorIsReturned ==
    getErr # NoError =>
        /\ Returned
        /\ connectCalls = 0
        /\ result.sess = "nil"
        /\ result.err.msg = "error getting codespace: " \o getErr.msg

C7_CancellationIsNotTimedOut ==
    (Returned /\ retryErr = CtxError) =>
        /\ result.err = CtxError
        /\ result.err # TimedOutError

\* C8: ConnectToLiveshare never returns the transient "codespace not ready
\* yet" error.
C8_NotReadyNeverReturned ==
    Returned => result.err.msg # "codespace not ready yet"

\* C9: an attempt that fetches a ready record succeeds; only a fetched record
\* that is not ready makes the attempt fail with "not ready yet" (and so
\* leads to a backoff sleep).
C9_FetchedReadyAttemptSucceeds ==
    pc = "sleeping" =>
        \/ MissingFields(fetched) # {}
        \/ fetched.State # CodespaceStateAvailable

\* C10: liveshare.Connect is given the session id, token, relay SAS, relay
\* endpoint and host public keys of the latest fetched record (of the entry
\* record if nothing was fetched), and that record is ready.
C10_ConnectUsesLatestReadyRecord ==
    connectOpts # NoOptions =>
        /\ connectOpts.SessionID = LatestRecord.Connection.SessionID
        /\ connectOpts.SessionToken = LatestRecord.Connection.SessionToken
        /\ connectOpts.RelaySAS = LatestRecord.Connection.RelaySAS
        /\ connectOpts.RelayEndpoint = LatestRecord.Connection.RelayEndpoint
        /\ connectOpts.HostPublicKeys = LatestRecord.Connection.HostPublicKeys
        /\ MissingFields(LatestRecord) = {}
        /\ LatestRecord.State = CodespaceStateAvailable

C10_Witness ==
    /\ pc = "connecting"
    /\ getCalls >= 2
    /\ fetched # NoCodespace
    /\ connectOpts.SessionID = fetched.Connection.SessionID
    /\ MissingFields(entry) = {}

\* the labels and stops the progress indicator received
Labels(p) == {p[i] : i \in 1..Len(p)}

\* C11: with Starting at entry, Starting answered by the first two polls and
\* a ready record by the third, there is one StartCodespace call, there are
\* two transient retries, and the connection uses the third poll's record.
C11_TwoStartingPollsThenReady ==
    (/\ pc = "connecting"
     /\ entry.State = "Starting"
     /\ getCalls = 3
     /\ earlierPolls = "Starting") =>
        /\ startCalls = 1
        /\ sleeps = 2
        /\ connectOpts.SessionID = fetched.Connection.SessionID

\* C12: when ConnectToLiveshare has returned, every start of the progress
\* indicator is followed by a stop, and the last call it received is a stop.
C12_IndicatorStoppedOnEveryExit ==
    Returned =>
        /\ \A i \in 1..Len(progress) :
              progress[i] # "Stop" =>
                  \E j \in (i + 1)..Len(progress) : progress[j] = "Stop"
        /\ progress # <<>> => progress[Len(progress)] = "Stop"

C12_Witness ==
    /\ Returned
    /\ result.sess = "session"
    /\ progress = <<"Starting codespace", "Connecting to codespace",
                    "Stop", "Stop">>

\* C13: the "Starting codespace" indicator is started exactly when the record
\* given at entry has a state other than Available.
C13_StartingIndicatorIffNotAvailable ==
    /\ pc = "entry" => progress = <<>>
    /\ pc # "entry" =>
          ("Starting codespace" \in Labels(progress)
              <=> entry.State # CodespaceStateAvailable)

C13_Witness ==
    /\ Returned
    /\ entry.State = CodespaceStateAvailable
    /\ MissingFields(entry) # {}
    /\ sleeps >= 1
    /\ "Starting codespace" \notin Labels(progress)

\* C14: liveshare.Connect is called at most once, only after the readiness
\* wait succeeded and the "Connecting to codespace" indicator was started;
\* after a readiness failure there is neither that indicator nor the call.
C14_ConnectOnceAfterReadiness ==
    /\ connectCalls <= 1
    /\ (\/ connectCalls = 1
        \/ pc = "connecting"
        \/ "Connecting to codespace" \in Labels(progress)) =>
          /\ retryErr = NoError
          /\ startErr = NoError
          /\ getErr = NoError
          /\ connectCalls = 1
          /\ "Connecting to codespace" \in Labels(progress)
          /\ MissingFields(codespace) = {}
          /\ codespace.State = CodespaceStateAvailable
    /\ (Returned /\ (retryErr # NoError \/ startErr # NoError)) =>
          /\ connectCalls = 0
          /\ result.sess = "nil"

C14_Witness ==
    /\ Returned
    /\ connectCalls = 1
    /\ getCalls >= 1
    /\ result.err = ConnectError

C16_NeverReadyEndsTimedOutInTime ==
    (Returned /\ retryErr = NotReadyError) =>
        /\ result.err = TimedOutError
        /\ GetElapsedTime(now) <= MaxElapsedTime + MaxInterval

\* C17: when the first GetCodespace fails, ConnectToLiveshare has returned
\* without a backoff sleep, a second attempt or a connection.
C17_FirstFetchErrorReturnsAtOnce ==
    (getErr # NoError /\ getCalls = 1) =>
        /\ Returned
        /\ sleeps = 0
        /\ connectCalls = 0

C17_Witness ==
    /\ Returned
    /\ getErr = ApiError
    /\ getCalls = 1
    /\ sleeps = 0
    /\ entry.State = "Starting"

\* C18: a cancellation during a backoff sleep ends that sleep: the next step
\* is the return of the wait with the context's error, before the timer would
\* have fired and without another GetCodespace call.
C18_CancelObservedDuringSleep ==
    [][(pc = "sleeping" /\ ctx = "canceled") =>
          /\ pc' = "done"
          /\ retryErr' = CtxError
          /\ getCalls' = getCalls
          /\ now' - now < timer]_vars

C18_Witness ==
    /\ Returned
    /\ wokeBy = "cancel"
    /\ retryErr = CtxError
    /\ sleeps >= 2

----------------------------------------------------------------------------
(* Properties of the RPC invoker *)

IsDecimal(text) == text # <<>> /\ \A i \in 1..Len(text) : IsDigit(text[i])

\* 10 to the power n
RECURSIVE Pow10(_)
Pow10(n) == IF n = 0 THEN 1 ELSE 10 * Pow10(n - 1)

\* the sum of the digits of text weighted by their place
RECURSIVE PlaceSum(_, _)
PlaceSum(text, i) ==
    IF i > Len(text) THEN 0
    ELSE DigitValue(text[i]) * Pow10(Len(text) - i) + PlaceSum(text, i + 1)

PortNumber(text) == PlaceSum(text, 1)

JupyterReturned == rpcPc = "returned" /\ rpcMethod = "StartJupyterServer"

SSHReturned == rpcPc = "returned" /\ rpcMethod = "StartSSHServer"

\* C19 as stated: StartJupyterServer returns (0, "", "failed to start
\* JupyterLab: M") for every response with Result=false, and the parsed port,
\* the server URL and a nil error for every response with Result=true.
C19_JupyterEnvelopeTranslation ==
    JupyterReturned =>
        IF ~rpcResp.Result
        THEN /\ rpcRet.port = 0
             /\ rpcRet.text = ""
             /\ rpcRet.err.msg = "failed to start JupyterLab: " \o rpcResp.Message
        ELSE /\ rpcRet.err = NoError
             /\ rpcRet.text = rpcResp.ServerUrl
             /\ IsDecimal(rpcResp.Port)
             /\ rpcRet.port = PortNumber(rpcResp.Port)

\* C19 as amended: the same, but with Result=true the port, the URL and the
\* nil error are returned when the port text is a decimal number, and an
\* error is returned when it is not.
C19_JupyterEnvelopeTranslationParsed ==
    JupyterReturned =>
        IF ~rpcResp.Result
        THEN /\ rpcRet.port = 0
             /\ rpcRet.text = ""
             /\ rpcRet.err.msg = "failed to start JupyterLab: " \o rpcResp.Message
        ELSE IF IsDecimal(rpcResp.Port)
             THEN /\ rpcRet.err = NoError
                  /\ rpcRet.text = rpcResp.ServerUrl
                  /\ rpcRet.port = PortNumber(rpcResp.Port)
             ELSE rpcRet.err # NoError

C19_Witness ==
    /\ JupyterReturned
    /\ ~rpcResp.Result
    /\ rpcResp.Message = "error message"
    /\ rpcResp.Port = <<"1", "2", "3", "4">>
    /\ rpcResp.ServerUrl # ""
    /\ rpcRet.port = 0
    /\ rpcRet.text = ""

\* C20 as stated: StartSSHServer returns the parsed port, the user and a nil
\* error for every response with Result=true, and (0, "", "failed to start SSH
\* server: M") for every response with Result=false.
C20_SSHEnvelopeTranslation ==
    SSHReturned =>
        IF rpcResp.Result
        THEN /\ rpcRet.err = NoError
             /\ rpcRet.text = rpcResp.User
             /\ IsDecimal(rpcResp.ServerPort)
             /\ rpcRet.port = PortNumber(rpcResp.ServerPort)
        ELSE /\ rpcRet.port = 0
             /\ rpcRet.text = ""
             /\ rpcRet.err.msg = "failed to start SSH server: " \o rpcResp.Message

\* C20 as amended: the same, but with Result=true the port, the user and the
\* nil error are returned when ServerPort is a decimal number, and an error
\* is returned when it is not.
C20_SSHEnvelopeTranslationParsed ==
    SSHReturned =>
        IF rpcResp.Result
        THEN IF IsDecimal(rpcResp.ServerPort)
             THEN /\ rpcRet.err = NoError
                  /\ rpcRet.text = rpcResp.User
                  /\ rpcRet.port = PortNumber(rpcResp.ServerPort)
             ELSE rpcRet.err # NoError
        ELSE /\ rpcRet.port = 0
             /\ rpcRet.text = ""
             /\ rpcRet.err.msg = "failed to start SSH server: " \o rpcResp.Message

C20_Witness ==
    /\ SSHReturned
    /\ rpcResp.Result
    /\ rpcResp.ServerPort = <<"1", "2", "3", "4">>
    /\ rpcResp.User = "test"
    /\ rpcRet.port = 1234
    /\ rpcRet.text = "test"
    /\ rpcRet.err = NoError

----------------------------------------------------------------------------
(* RebuildContainer and the "connected" notification *)

RebuildReturned == rpcPc = "returned" /\ rpcMethod = "RebuildContainer"

\* C21: RebuildContainer returns a nil error whenever the response has
\* RebuildContainer=true, with full=true and with full=false, and an error
\* whose text is exactly "couldn't rebuild codespace" whenever the response
\* has RebuildContainer=false.
C21_RebuildContainerTranslation ==
    RebuildReturned =>
        IF rpcResp.RebuildContainer
        THEN rpcRet.err = NoError
        ELSE rpcRet.err = [msg |-> "couldn't rebuild codespace", cause |-> ""]

C21_Witness ==
    /\ RebuildReturned
    /\ rpcFull
    /\ rpcResp.RebuildContainer
    /\ rpcRet.err = NoError

\* the control service has received a request whose first client activity
\* is the "connected" event
ConnectedReceived ==
    \E i \in DOMAIN notifyCalls :
        /\ notifyCalls[i].ClientActivities # <<>>
        /\ notifyCalls[i].ClientActivities[1] = connectedEventName

\* C22: once CreateInvoker has succeeded and a call of StartJupyterServer,
\* StartSSHServer or RebuildContainer has returned, the control service has
\* received a notification whose first client activity is "connected".
C22_ConnectedReceivedWhenCallReturns ==
    (invoker = "created" /\ rpcPc = "returned") => ConnectedReceived

\* C23: a failure of the notification changes neither the outcome of
\* CreateInvoker nor that of a primary call: the invoker stays created, and
\* StartSSHServer on a successful envelope returns its port, its user and a
\* nil error whether the notification failed before, during or after it.
C23_NotificationFailureIsIsolated ==
    /\ notifyErr # NoError => invoker = "created"
    /\ (SSHReturned /\ rpcResp.Result /\ IsDecimal(rpcResp.ServerPort)) =>
          rpcRet = [port |-> PortNumber(rpcResp.ServerPort),
                    text |-> rpcResp.User, err |-> NoError]

C23_Witness ==
    /\ SSHReturned
    /\ invoker = "created"
    /\ notifyErr = NotifyError
    /\ rpcResp.Result
    /\ rpcResp.ServerPort = <<"8", "0">>
    /\ rpcRet = [port |-> 80, text |-> "test", err |-> NoError]

----------------------------------------------------------------------------
(* ListenTCP *)

ListenReturned == ltPc = "returned"

\* C24: when ListenTCP succeeds, the port it returns is the port of the live
\* listener: the port asked for when that is not 0, and a port other than 0
\* that the system chose when it is 0.
C24_ReturnedPortIsListenerPort ==
    (ListenReturned /\ ltRet.err = NoError) =>
        /\ ltRet.listener # NoListener
        /\ ltRet.port = ltRet.listener.Port
        /\ ltRet.port \in ltOpen
        /\ ltRet.port # 0
        /\ ltPort # 0 => ltRet.port = ltPort

C24_Witness ==
    /\ ListenReturned
    /\ ltPort = 0
    /\ ltRet.err = NoError
    /\ ltRet.port = 3
    /\ ltOpen = {3}

\* C25: ListenTCP builds the address before it binds; a failure to build the
\* address and a failure to listen are returned with different wrapped
\* errors, and in both cases the listener is nil, the port is 0 and no
\* listener is left open.
C25_FailuresAreDistinctAndClean ==
    /\ ltBinds > 0 => ltAddr # NoAddr
    /\ (ListenReturned /\ ltRet.err # NoError) =>
          /\ ltRet.listener = NoListener
          /\ ltRet.port = 0
          /\ ltOpen = {}
          /\ IF ltBinds = 0
             THEN /\ ltAddr = NoAddr
                  /\ ltRet.err = [msg |-> "failed to build tcp address: "
                                            \o InvalidPortError.msg,
                                  cause |-> InvalidPortError.msg]
             ELSE ltRet.err = [msg |-> "failed to listen to local port over tcp: "
                                          \o BindError.msg,
                               cause |-> BindError.msg]

C25_Witness ==
    /\ ListenReturned
    /\ ltPort = 2
    /\ 2 \in ltBusy
    /\ ltBinds = 1
    /\ ltRet.err # NoError
    /\ ltRet.port = 0
    /\ ltOpen = {}

----------------------------------------------------------------------------
(* The host public keys of a connection record *)

\* the four credentials of the options given to liveshare.Connect are present
OptionsHaveCredentials ==
    /\ connectOpts.SessionID # ""
    /\ connectOpts.SessionToken # ""
    /\ connectOpts.RelayEndpoint # ""
    /\ connectOpts.RelaySAS # ""

\* C26 as stated: a record is ready only if every field of its connection is
\* non-empty, the host public keys included, so liveshare.Connect is never
\* called with a record whose host public keys are empty.
C26_ReadyNeedsHostPublicKeys ==
    connectOpts # NoOptions =>
        /\ OptionsHaveCredentials
        /\ connectOpts.HostPublicKeys # <<>>

\* C26 as amended: a record is ready only if it is Available and its four
\* credentials are non-empty; the host public keys are not looked at, and a
\* record with the four credentials and no host public keys given at entry
\* is connected to without a start or a fetch, with the empty key list.
C26_ReadyNeedsCredentialsOnly ==
    /\ connectOpts # NoOptions =>
          /\ OptionsHaveCredentials
          /\ LatestRecord.State = CodespaceStateAvailable
          /\ connectOpts.HostPublicKeys = LatestRecord.Connection.HostPublicKeys
    /\ (/\ entry.State = CodespaceStateAvailable
        /\ MissingFields(entry) = {}
        /\ entry.Connection.HostPublicKeys = <<>>
        /\ pc \in {"connecting", "done"}) =>
          /\ connectCalls = 1
          /\ startCalls = 0
          /\ getCalls = 0
          /\ connectOpts.HostPublicKeys = <<>>

C26_Witness ==
    /\ pc = "done"
    /\ entry.State = CodespaceStateAvailable
    /\ MissingFields(entry) = {}
    /\ entry.Connection.HostPublicKeys = <<>>
    /\ connectCalls = 1
    /\ connectOpts.HostPublicKeys = <<>>
    /\ result.sess = "session"

----------------------------------------------------------------------------
(* The pr command *)

\* the pull requests of the lists interactiveList was given
ListedPrs == { ilPrs[i] : i \in DOMAIN ilPrs }

\* the pull request whose entry the user selected
SelectedPrs == { pr \in ListedPrs : PrOption(pr) = ilOptions[ilAnswers.Pr + 1] }

\* C27: the pull request interactiveList opens in the browser or checks out
\* is the one whose "[number] title" entry the user selected, also when a
\* number occurs more than once in the lists.
C27_ActsOnSelectedPr ==
    (ilPc = "done" /\ ilAnswers.Action \in {openAction, checkoutAction}) =>
        \A pr \in SelectedPrs :
            /\ ilAnswers.Action = openAction =>
                  \A i \in DOMAIN ilOpened : ilOpened[i] = pr.URL
            /\ ilAnswers.Action = checkoutAction =>
                  Atoi(coArg) = [ok |-> TRUE, value |-> pr.Number]

CheckoutReturned == coPc = "done"

\* no remote of the local repository is a remote of the head repository
NoRemoteHasHead ==
    /\ coPull # NoPull
    /\ coPull.Head.Repo = NoRepo
           \/ MatchingRemotes(coRemotes, coPull.Head.Repo) = {}

\* the fetch of the pull request's head into the local branch b
FetchInto(b) ==
    <<"fetch", "origin",
      "refs/pull/" \o Join(Itoa(coPull.Number)) \o "/head:" \o b>>

\* C29: checkoutPr returns an error for an argument that is not a number
\* before any API call or git command; when no local remote is a remote of
\* the head repository, the head is fetched into a local branch named after
\* the head ref, or "<head owner login>-<head ref>" when the head ref is the
\* head repository's default branch, so never into a branch with the name
\* of the head repository's default branch.
C29_CheckoutBranchName ==
    /\ (CheckoutReturned /\ ~IsDecimal(coArg)) =>
          /\ coRet \notin {NoReturn, [err |-> NoError], [exit |-> 1]}
          /\ coApi = 0
          /\ coGit = <<>>
    /\ (CheckoutReturned /\ NoRemoteHasHead /\ coGit # <<>>) =>
          /\ IF /\ coPull.Head.Repo # NoRepo
                /\ coPull.Head.Ref = coPull.Head.Repo.DefaultBranch
             THEN coGit[1] = FetchInto(coPull.Head.Repo.Owner.Login \o "-"
                                           \o coPull.Head.Ref)
             ELSE coGit[1] = FetchInto(coPull.Head.Ref)
          /\ coPull.Head.Repo # NoRepo =>
                coGit[1] # FetchInto(coPull.Head.Repo.DefaultBranch)

C29_Witness ==
    /\ CheckoutReturned
    /\ coArg = <<"1", "2">>
    /\ coPull # NoPull
    /\ coPull.Head.Repo # NoRepo
    /\ coPull.Head.Repo.Owner.Login = "monalisa"
    /\ coPull.Head.Repo.DefaultBranch = "master"
    /\ coPull.Head.Ref = "master"
    /\ coRemotes = {OriginRemote}
    /\ coRet = [err |-> NoError]
    /\ coGit[1] = <<"fetch", "origin", "refs/pull/12/head:monalisa-master">>
    /\ coGit[2] = <<"checkout", "monalisa-master">>

\* C28: in a run of createPr, github.CreatePullRequest is called at most
\* once, only after the answer "Yes", with the title and body of the latest
\* survey round; "Cancel and discard" and an error of the confirmation
\* prompt end the run without a call; "Edit" starts another survey round,
\* seeded with the title and body entered so far.
C28_CreateOnceAfterYes ==
    /\ Len(crCreates) <= 1
    /\ crCreates # <<>> =>
          /\ crAnswer = "Yes"
          /\ crCreates[1] = [Title |-> crEntered.Title, Body |-> crEntered.Body]
    /\ crAnswer \in {"Cancel and discard", "error"} =>
          /\ crPc = "done"
          /\ crCreates = <<>>
    /\ crAnswer = "Edit" =>
          /\ crPc \in {"survey", "confirm"}
          /\ crCreates = <<>>
    /\ crRound >= 2 => crSeed = crPrevEntered

C28_Witness ==
    /\ crPc = "done"
    /\ crRound = 2
    /\ crAnswer = "Yes"
    /\ crSeed = [Title |-> "Fix bug", Body |-> "first draft"]
    /\ crEntered = [Title |-> "Fix bug", Body |-> "second draft"]
    /\ crCreates = <<[Title |-> "Fix bug", Body |-> "second draft"]>>

----------------------------------------------------------------------------
(* parseRemotes *)

\* the matches of the lines of the input that match, in input order
Matches(lines) ==
    LET found == [i \in DOMAIN lines |-> FindStringSubmatch(lines[i])]
    IN  SelectSeq(found, LAMBDA m : m # NoMatch)

\* the places in the matches where a run of lines with one name starts
RunStarts(matches) ==
    { i \in DOMAIN matches : i = 1 \/ matches[i].name # matches[i - 1].name }

\* the start of the k-th run
RunStart(starts, k) ==
    CHOOSE a \in starts : Cardinality({ x \in starts : x <= a }) = k

\* the lines of the run that starts at a
RunLines(matches, starts, a) ==
    { i \in DOMAIN matches : i >= a /\ \A x \in starts : x > a => i < x }

\* the URL the lines of a run give for the type t: that of the last line of
\* the type whose URL parses
RunURL(matches, run, t) ==
    LET urls == { i \in run : /\ matches[i].urlType = t
                              /\ ParseURL(matches[i].urlStr).err = NoError }
    IN  IF urls = {} THEN NoURL
        ELSE LET last == CHOOSE i \in urls : \A j \in urls : j <= i
             IN  ParseURL(matches[last].urlStr).u

\* C30: parseRemotes returns, in input order, one Remote for each maximal
\* run of matching lines with the same name; its FetchURL comes from the
\* "(fetch)" lines of the run only and its PushURL from the "(push)" lines
\* only; lines that do not match give no entry, and a matching line whose
\* URL does not parse gives the entry and leaves the URLs as they are.
C30_OneRemotePerRun ==
    grPc = "returned" =>
        LET matches == Matches(grLines)
            starts == RunStarts(matches)
        IN  /\ Len(grRemotes) = Cardinality(starts)
            /\ \A k \in DOMAIN grRemotes :
                  LET a == RunStart(starts, k)
                      run == RunLines(matches, starts, a)
                  IN  /\ grRemotes[k].Name = matches[a].name
                      /\ grRemotes[k].FetchURL = RunURL(matches, run, "fetch")
                      /\ grRemotes[k].PushURL = RunURL(matches, run, "push")

C30_Witness ==
    /\ grPc = "returned"
    /\ grLines = << <<"origin", "git@github.com:o/r.git", "(fetch)">>,
                    <<"origin", "%zz", "(push)">>,
                    <<"upstream", "%zz", "(fetch)">> >>
    /\ grRemotes =
          << [Name |-> "origin",
              FetchURL |-> [url |-> "ssh://git@github.com/o/r.git"],
              PushURL |-> NoURL],
             [Name |-> "upstream", FetchURL |-> NoURL, PushURL |-> NoURL] >>

====
